---- MODULE Spec2Model ----
(***************************************************************************)
(* Model of the query validator of cmd/api/main.go: the two lookup tables  *)
(* of a QueryValidator, the extension points AddParamPattern and           *)
(* AddTypeValidator, and ValidateQuery with its helpers.                   *)
(*                                                                         *)
(* Go strings that are matched against a regular expression (parameter     *)
(* names, parameter values) are sequences of one-character strings.        *)
(* Strings that are only compared or used as map keys (pattern names, type *)
(* tags, pattern texts) are TLA+ strings.  A formatted message is the      *)
(* sequence of the pieces fmt puts together.                               *)
(***************************************************************************)
EXTENDS Integers, Sequences, FiniteSets, Bags, TLC

VARIABLES
    paramPatterns,   \* qv.paramPatterns: pattern name -> compiled regexp
    typeValidators,  \* qv.typeValidators: type tag -> predicate
    op,              \* the call that produced this state
    argName,         \* AddParamPattern / AddTypeValidator: the name argument
    argValue,        \* the pattern text, or the predicate, passed with argName
    err,             \* AddParamPattern's returned error (NoError when nil)
    queries,         \* ValidateQuery: c.Queries(), parameter name -> value
    passedRules,     \* ValidateQuery: the rules mapping as the caller passed it
    rules,           \* ValidateQuery: the caller's rules mapping after the call
    errors,          \* ValidateQuery: the returned slice of error records
    panicked,        \* ValidateQuery: the call panicked instead of returning
    value,           \* the string handed to a type validator on its own
    accepted         \* what that validator answered

vars == <<paramPatterns, typeValidators, op, argName, argValue, err, queries,
          passedRules, rules, errors, panicked, value, accepted>>

----------------------------------------------------------------------------
(* Bounds *)

\* Largest number of observed query parameters in one request.
MaxParams == 2
\* Longest value handed to the number validator on its own.
MaxValueLen == 4

----------------------------------------------------------------------------
(* Characters and strings *)

LowerSeq == <<"a","b","c","d","e","f","g","h","i","j","k","l","m",
              "n","o","p","q","r","s","t","u","v","w","x","y","z">>
UpperSeq == <<"A","B","C","D","E","F","G","H","I","J","K","L","M",
              "N","O","P","Q","R","S","T","U","V","W","X","Y","Z">>
Lower == {LowerSeq[i] : i \in DOMAIN LowerSeq}
Upper == {UpperSeq[i] : i \in DOMAIN UpperSeq}
Digit == {"0","1","2","3","4","5","6","7","8","9"}

\* All strings over the characters cs of length at most n.
StringsUpTo(cs, n) == UNION {[1..k -> cs] : k \in 0..n}

\* strings.ToLower, on ASCII text.
ToLower(s) ==
    [i \in 1..Len(s) |->
        IF s[i] \in Upper
        THEN LowerSeq[CHOOSE k \in DOMAIN UpperSeq : UpperSeq[k] = s[i]]
        ELSE s[i]]

----------------------------------------------------------------------------
(* Regular expressions: the syntax trees regexp.Compile produces for the   *)
(* patterns of the model, and regexp matching on them.                     *)

Bol == [kind |-> "bol"]                        \* ^  (beginning of text)
Eol == [kind |-> "eol"]                        \* $  (end of text)
Class(cs) == [kind |-> "class", chars |-> cs]  \* one character out of cs
Cat(rs) == [kind |-> "cat", subs |-> rs]       \* concatenation
Star(r) == [kind |-> "star", sub |-> r]        \* r*
Plus(r) == Cat(<<r, Star(r)>>)                 \* r+
Opt(r) == [kind |-> "opt", sub |-> r]          \* r?
Rep(r, n) == Cat([i \in 1..n |-> r])           \* r{n}

RECURSIVE MatchEnds(_, _, _)
RECURSIVE CatEnds(_, _, _, _)
RECURSIVE StarEnds(_, _, _)

\* The positions (0..Len(s)) at which a match of r that starts at position i
\* of s can end.
MatchEnds(r, s, i) ==
    CASE r.kind = "bol" -> IF i = 0 THEN {i} ELSE {}
      [] r.kind = "eol" -> IF i = Len(s) THEN {i} ELSE {}
      [] r.kind = "class" ->
            IF i < Len(s) /\ s[i + 1] \in r.chars THEN {i + 1} ELSE {}
      [] r.kind = "cat" -> CatEnds(r.subs, s, {i}, 1)
      [] r.kind = "opt" -> {i} \cup MatchEnds(r.sub, s, i)
      [] r.kind = "star" -> StarEnds(r.sub, s, {i})

CatEnds(rs, s, from, k) ==
    IF k > Len(rs) THEN from
    ELSE CatEnds(rs, s, UNION {MatchEnds(rs[k], s, j) : j \in from}, k + 1)

StarEnds(r, s, reached) ==
    LET more == reached \cup UNION {MatchEnds(r, s, j) : j \in reached}
    IN  IF more = reached THEN reached ELSE StarEnds(r, s, more)

\* (*Regexp).MatchString and regexp.MatchString: some substring matches.
MatchString(r, s) == \E i \in 0..Len(s) : MatchEnds(r, s, i) # {}

----------------------------------------------------------------------------
(* regexp.Compile on the pattern texts of the model *)

DefaultPattern == "^[a-zA-Z][a-zA-Z0-9_]*$"
LowerOnlyPattern == "^[a-z]+$"
UnclosedPattern == "("

PatternTexts == {DefaultPattern, LowerOnlyPattern, UnclosedPattern}

NoError == <<>>

\* regexp.Compile: the compiled expression, or the syntax error.
Compile(pattern) ==
    CASE pattern = DefaultPattern ->
            [regex |-> Cat(<<Bol, Class(Lower \cup Upper),
                             Star(Class(Lower \cup Upper \cup Digit \cup {"_"})),
                             Eol>>),
             err |-> NoError]
      [] pattern = LowerOnlyPattern ->
            [regex |-> Cat(<<Bol, Plus(Class(Lower)), Eol>>), err |-> NoError]
      [] pattern = UnclosedPattern ->
            [regex |-> Cat(<<>>),
             err |-> <<"error parsing regexp: missing closing ): ", UnclosedPattern>>]

\* fmt.Errorf("invalid pattern for %s: %v", name, err)
PatternError(name, compileErr) ==
    <<"invalid pattern for ", name, ": ">> \o compileErr

----------------------------------------------------------------------------
(* Type validators *)

\* The number pattern without its closing $.
NumberRegexp_NoEnd ==
    Cat(<<Bol, Opt(Class({"-"})), Plus(Class(Digit)),
          Opt(Cat(<<Class({"."}), Plus(Class(Digit))>>))>>)

\* ^-?\d+(\.\d+)?$
NumberRegexp ==
    Cat(<<Bol, Opt(Class({"-"})), Plus(Class(Digit)),
          Opt(Cat(<<Class({"."}), Plus(Class(Digit))>>)), Eol>>)

\* ^\d{4}-\d{2}-\d{2}$
DateRegexp ==
    Cat(<<Bol, Rep(Class(Digit), 4), Class({"-"}), Rep(Class(Digit), 2),
          Class({"-"}), Rep(Class(Digit), 2), Eol>>)

NumberValidator(v) == MatchString(NumberRegexp, v)

BooleanValidator(v) ==
    LET l == ToLower(v)
    IN  l = <<"t","r","u","e">> \/ l = <<"f","a","l","s","e">>
          \/ l = <<"1">> \/ l = <<"0">>

DateValidator(v) == MatchString(DateRegexp, v)

\* The values a caller can pass to AddTypeValidator: a predicate of its own
\* (here: the value is not empty), or the nil func.
NonEmptyFunc == "func nonEmpty"
NilFunc == "nil"
CallerValidators == {NonEmptyFunc, NilFunc}

\* The three closures NewQueryValidator installs.
NumberFunc == "func number"
BooleanFunc == "func boolean"
DateFunc == "func date"

\* Calling a func value: calling the nil func panics.
CallPanics(f) == f = NilFunc

Call(f, v) ==
    CASE f = NumberFunc -> NumberValidator(v)
      [] f = BooleanFunc -> BooleanValidator(v)
      [] f = DateFunc -> DateValidator(v)
      [] f = NonEmptyFunc -> Len(v) > 0

----------------------------------------------------------------------------
(* Inputs *)

\* Names under which callers register patterns.
PatternNames == {"default", "foo"}

\* Type tags: the ones the handler's rules use ("number", "string").
TypeTags == {"number", "string"}

\* Observed parameter names: "age", "x_1" and "1bad".
ParamNames == {<<"a","g","e">>, <<"x","_","1">>, <<"1","b","a","d">>}

\* Observed parameter values: "30", "abc" and "".
QueryValues == {<<"3","0">>, <<"a","b","c">>, <<>>}

\* Request query strings with at most MaxParams parameters.
QuerySets ==
    UNION {[ns -> QueryValues] :
             ns \in {x \in SUBSET ParamNames : Cardinality(x) <= MaxParams}}

\* Parameter names a route declares: "age" and "1bad".
RuleNames == {<<"a","g","e">>, <<"1","b","a","d">>}

\* Rule sets a route can declare.
RuleSets == UNION {[ns -> TypeTags] : ns \in SUBSET RuleNames}

\* The orders in which a range loop can visit the keys ks of a map.
Orders(ks) ==
    {o \in [1..Cardinality(ks) -> ks] :
        \A i, j \in 1..Cardinality(ks) : o[i] = o[j] => i = j}

\* Characters of the values handed to the number validator on its own.
NumberChars == {"-", ".", "3", "a", "+"}

\* m with the entry k -> x set (Go: m[k] = x).
MapSet(m, k, x) == [j \in DOMAIN m \cup {k} |-> IF j = k THEN x ELSE m[j]]

EmptyMap == <<>>

----------------------------------------------------------------------------
(* The validator *)

\* A QueryValidationError.
QueryValidationError(parameter, val, message) ==
    [Parameter |-> parameter, Value |-> val, Message |-> message]

\* fmt.Sprintf("invalid value for type %s", expectedType)
InvalidValueMessage(expectedType) == <<"invalid value for type ", expectedType>>

InvalidNameMessage == <<"invalid parameter name format">>
UnexpectedMessage == <<"unexpected parameter">>

\* validateParamName with the test of exists the wrong way round.
validateParamName_Inverted(patterns, param) ==
    IF "default" \in DOMAIN patterns
    THEN TRUE
    ELSE MatchString(patterns["default"], param)

validateParamName(patterns, param) ==
    IF "default" \notin DOMAIN patterns
    THEN TRUE
    ELSE MatchString(patterns["default"], param)

\* validateParamValue panics when the registered validator is the nil func.
validateParamValuePanics(validators, expectedType) ==
    /\ expectedType \in DOMAIN validators
    /\ CallPanics(validators[expectedType])

\* validateParamValue rejecting a value whose type tag has no validator.
validateParamValue_FailClosed(validators, val, expectedType) ==
    IF expectedType \notin DOMAIN validators
    THEN FALSE
    ELSE Call(validators[expectedType], val)

validateParamValue(validators, val, expectedType) ==
    IF expectedType \notin DOMAIN validators
    THEN TRUE
    ELSE Call(validators[expectedType], val)

RECURSIVE RangeVariant(_, _, _, _, _, _, _, _)

\* The loop of ValidateQuery with one slip in it:
\*   "no continue"  the name error is not followed by continue
\*   "no exists"    the lookup in rules ignores exists
\*   "return"       the first error ends the loop
RangeVariant(slip, patterns, validators, q, r, order, i, errs) ==
    IF i > Len(order) \/ (slip = "return" /\ errs # <<>>)
    THEN [errors |-> errs, panicked |-> FALSE]
    ELSE
      LET param == order[i]
          val == q[param]
          nameOk == validateParamName(patterns, param)
          errs1 == IF nameOk THEN errs
                   ELSE Append(errs, QueryValidationError(param, val, InvalidNameMessage))
          declared == param \in DOMAIN r
          expectedType == IF declared THEN r[param] ELSE ""
      IN  IF ~nameOk /\ slip # "no continue"
          THEN RangeVariant(slip, patterns, validators, q, r, order, i + 1, errs1)
          ELSE IF ~declared /\ slip # "no exists"
          THEN RangeVariant(slip, patterns, validators, q, r, order, i + 1,
                   Append(errs1, QueryValidationError(param, val, UnexpectedMessage)))
          ELSE IF validateParamValuePanics(validators, expectedType)
          THEN [errors |-> <<>>, panicked |-> TRUE]
          ELSE IF ~validateParamValue(validators, val, expectedType)
          THEN RangeVariant(slip, patterns, validators, q, r, order, i + 1,
                   Append(errs1, QueryValidationError(param, val,
                                     InvalidValueMessage(expectedType))))
          ELSE RangeVariant(slip, patterns, validators, q, r, order, i + 1, errs1)

RangeQueries_NoContinue(patterns, validators, q, r, order, i, errs) ==
    RangeVariant("no continue", patterns, validators, q, r, order, i, errs)

RangeQueries_NoExists(patterns, validators, q, r, order, i, errs) ==
    RangeVariant("no exists", patterns, validators, q, r, order, i, errs)

RangeQueries_Return(patterns, validators, q, r, order, i, errs) ==
    RangeVariant("return", patterns, validators, q, r, order, i, errs)

RECURSIVE RangeQueries(_, _, _, _, _, _, _)

\* The loop of ValidateQuery over the observed parameters, visited in the
\* order given, from the i-th on, with errs appended so far.  The outcome is
\* the slice returned, or a panic.
RangeQueries(patterns, validators, q, r, order, i, errs) ==
    IF i > Len(order)
    THEN [errors |-> errs, panicked |-> FALSE]
    ELSE
      LET param == order[i]
          val == q[param]
      IN  IF ~validateParamName(patterns, param)
          THEN RangeQueries(patterns, validators, q, r, order, i + 1,
                   Append(errs, QueryValidationError(param, val, InvalidNameMessage)))
          ELSE IF param \notin DOMAIN r
          THEN RangeQueries(patterns, validators, q, r, order, i + 1,
                   Append(errs, QueryValidationError(param, val, UnexpectedMessage)))
          ELSE IF validateParamValuePanics(validators, r[param])
          THEN [errors |-> <<>>, panicked |-> TRUE]
          ELSE IF ~validateParamValue(validators, val, r[param])
          THEN RangeQueries(patterns, validators, q, r, order, i + 1,
                   Append(errs, QueryValidationError(param, val,
                                    InvalidValueMessage(r[param]))))
          ELSE RangeQueries(patterns, validators, q, r, order, i + 1, errs)

\* AddParamPattern storing the result of Compile whatever err is.
AddParamPattern_IgnoreErr(name, pattern) ==
    LET compiled == Compile(pattern)
    IN  /\ op' = "AddParamPattern"
        /\ argName' = name
        /\ argValue' = pattern
        /\ err' = IF compiled.err # NoError
                  THEN PatternError(name, compiled.err) ELSE NoError
        /\ paramPatterns' = MapSet(paramPatterns, name, compiled.regex)
        /\ queries' = EmptyMap
        /\ passedRules' = EmptyMap
        /\ rules' = EmptyMap
        /\ errors' = <<>>
        /\ panicked' = FALSE
        /\ UNCHANGED <<typeValidators, value, accepted>>

AddParamPattern(name, pattern) ==
    LET compiled == Compile(pattern)
    IN  /\ op' = "AddParamPattern"
        /\ argName' = name
        /\ argValue' = pattern
        /\ IF compiled.err # NoError
           THEN /\ err' = PatternError(name, compiled.err)
                /\ paramPatterns' = paramPatterns
           ELSE /\ err' = NoError
                /\ paramPatterns' = MapSet(paramPatterns, name, compiled.regex)
        /\ queries' = EmptyMap
        /\ passedRules' = EmptyMap
        /\ rules' = EmptyMap
        /\ errors' = <<>>
        /\ panicked' = FALSE
        /\ UNCHANGED <<typeValidators, value, accepted>>

\* AddTypeValidator keeping the validator already registered under name.
AddTypeValidator_KeepFirst(name, validator) ==
    /\ op' = "AddTypeValidator"
    /\ argName' = name
    /\ argValue' = validator
    /\ typeValidators' = IF name \in DOMAIN typeValidators
                         THEN typeValidators
                         ELSE MapSet(typeValidators, name, validator)
    /\ err' = NoError
    /\ queries' = EmptyMap
    /\ passedRules' = EmptyMap
    /\ rules' = EmptyMap
    /\ errors' = <<>>
    /\ panicked' = FALSE
    /\ UNCHANGED <<paramPatterns, value, accepted>>

AddTypeValidator(name, validator) ==
    /\ op' = "AddTypeValidator"
    /\ argName' = name
    /\ argValue' = validator
    /\ typeValidators' = MapSet(typeValidators, name, validator)
    /\ err' = NoError
    /\ queries' = EmptyMap
    /\ passedRules' = EmptyMap
    /\ rules' = EmptyMap
    /\ errors' = <<>>
    /\ panicked' = FALSE
    /\ UNCHANGED <<paramPatterns, value, accepted>>

\* ValidateQuery deleting from rules the parameters it has seen.
ValidateQuery_Consume(q, r) ==
    \E order \in Orders(DOMAIN q) :
        LET out == RangeQueries(paramPatterns, typeValidators, q, r, order, 1, <<>>)
        IN  /\ op' = "ValidateQuery"
            /\ queries' = q
            /\ passedRules' = r
            /\ rules' = [p \in DOMAIN r \ DOMAIN q |-> r[p]]
            /\ errors' = out.errors
            /\ panicked' = out.panicked
            /\ argName' = ""
            /\ argValue' = ""
            /\ err' = NoError
            /\ UNCHANGED <<paramPatterns, typeValidators, value, accepted>>

ValidateQuery(q, r) ==
    \E order \in Orders(DOMAIN q) :
        LET out == RangeQueries(paramPatterns, typeValidators, q, r, order, 1, <<>>)
        IN  /\ op' = "ValidateQuery"
            /\ queries' = q
            /\ passedRules' = r
            /\ rules' = r
            /\ errors' = out.errors
            /\ panicked' = out.panicked
            /\ argName' = ""
            /\ argValue' = ""
            /\ err' = NoError
            /\ UNCHANGED <<paramPatterns, typeValidators, value, accepted>>

\* The tables NewQueryValidator builds.
NewParamPatterns == MapSet(EmptyMap, "default", Compile(DefaultPattern).regex)

NewTypeValidators ==
    MapSet(MapSet(MapSet(EmptyMap, "number", NumberFunc), "boolean", BooleanFunc),
           "date", DateFunc)

Init ==
    /\ paramPatterns = NewParamPatterns
    /\ typeValidators = NewTypeValidators
    /\ op = "NewQueryValidator"
    /\ argName = ""
    /\ argValue = ""
    /\ err = NoError
    /\ queries = EmptyMap
    /\ passedRules = EmptyMap
    /\ rules = EmptyMap
    /\ errors = <<>>
    /\ panicked = FALSE
    /\ value = <<>>
    /\ accepted = FALSE

\* A request is served from every configuration the validator can reach.
\* ValidateQuery leaves the tables alone and overwrites what the previous
\* request left, so a request that directly follows a request finds the
\* validator as that one found it and is not explored a second time.
Next ==
    \/ \E name \in PatternNames, pattern \in PatternTexts :
           AddParamPattern(name, pattern)
    \/ \E name \in TypeTags, validator \in CallerValidators :
           AddTypeValidator(name, validator)
    \/ /\ op # "ValidateQuery"
       /\ \E q \in QuerySets, r \in RuleSets : ValidateQuery(q, r)

Spec == Init /\ [][Next]_vars

----------------------------------------------------------------------------
(* The number validator of a fresh validator, on its own *)

InitNumber ==
    /\ paramPatterns = NewParamPatterns
    /\ typeValidators = NewTypeValidators
    /\ op = "NewQueryValidator"
    /\ argName = ""
    /\ argValue = ""
    /\ err = NoError
    /\ queries = EmptyMap
    /\ passedRules = EmptyMap
    /\ rules = EmptyMap
    /\ errors = <<>>
    /\ panicked = FALSE
    /\ value \in StringsUpTo(NumberChars, MaxValueLen)
    /\ accepted = FALSE

CheckNumber ==
    /\ op = "NewQueryValidator"
    /\ op' = "validateParamValue"
    /\ accepted' = validateParamValue(typeValidators, value, "number")
    /\ UNCHANGED <<paramPatterns, typeValidators, argName, argValue, err,
                   queries, passedRules, rules, errors, panicked, value>>

NextNumber == CheckNumber

SpecNumber == InitNumber /\ [][NextNumber]_vars

----------------------------------------------------------------------------
(* Properties of ValidateQuery's result *)

\* The last call was ValidateQuery and it returned its slice.
Returned == op = "ValidateQuery" /\ ~panicked

\* The positions of the returned records that are about parameter p.
RecordsFor(p) == {i \in 1..Len(errors) : errors[i].Parameter = p}

\* The name of p matches the pattern registered under "default".
MatchesDefault(p) == MatchString(paramPatterns["default"], p)

\* A validator is registered under tag t and it rejects v.
RegisteredAndRejects(t, v) ==
    /\ t \in DOMAIN typeValidators
    /\ ~CallPanics(typeValidators[t])
    /\ ~Call(typeValidators[t], v)

\* The observed parameter p fails one of the three checks.
FailsCheck(p) ==
    \/ ~MatchesDefault(p)
    \/ p \notin DOMAIN rules
    \/ RegisteredAndRejects(rules[p], queries[p])

\* How often the record e occurs in the slice es.
Occurrences(es, e) == Cardinality({i \in 1..Len(es) : es[i] = e})

\* The slices a and b hold the same records, whatever their order.
SameRecords(a, b) ==
    /\ Len(a) = Len(b)
    /\ \A i \in 1..Len(a) : Occurrences(a, a[i]) = Occurrences(b, a[i])

\* C1: every observed parameter whose name does not match the pattern
\* registered under "default" has exactly one record in the result, the
\* "invalid parameter name format" record with its name and value, whether or
\* not rules declares the name.
C1_InvalidNameOneRecord ==
    Returned =>
        \A p \in DOMAIN queries :
            ~MatchesDefault(p) =>
                /\ Cardinality(RecordsFor(p)) = 1
                /\ \A i \in RecordsFor(p) :
                       errors[i] = [Parameter |-> p, Value |-> queries[p],
                                    Message |-> <<"invalid parameter name format">>]

\* C1 witness: a returned call that observed a badly named parameter which
\* rules declares, and whose record is in the result.
C1_Witness ==
    /\ Returned
    /\ \E p \in DOMAIN queries \cap DOMAIN rules :
           /\ ~MatchesDefault(p)
           /\ RecordsFor(p) # {}

\* C2: for an observed parameter with a well-formed name that rules declares
\* with tag t, the record "invalid value for type t" is in the result exactly
\* when a validator is registered under t and rejects the value; with no
\* validator under t there is no record for the parameter.
C2_TypeRecordIffRejected ==
    Returned =>
        \A p \in DOMAIN queries \cap DOMAIN rules :
            MatchesDefault(p) =>
                LET t == rules[p]
                    rec == [Parameter |-> p, Value |-> queries[p],
                            Message |-> <<"invalid value for type ", t>>]
                IN  /\ (\E i \in 1..Len(errors) : errors[i] = rec)
                           <=> RegisteredAndRejects(t, queries[p])
                    /\ t \notin DOMAIN typeValidators => RecordsFor(p) = {}

\* C2 witness: a returned call with a declared, well-named parameter whose
\* value the validator registered under its tag rejected, and its record.
C2_Witness ==
    /\ Returned
    /\ \E p \in DOMAIN queries \cap DOMAIN rules :
           /\ MatchesDefault(p)
           /\ RegisteredAndRejects(rules[p], queries[p])
           /\ RecordsFor(p) # {}

\* C3: every observed parameter with a well-formed name that rules does not
\* declare has exactly one record in the result, the "unexpected parameter"
\* record, and so no record of a type check.
C3_UndeclaredOneRecord ==
    Returned =>
        \A p \in DOMAIN queries \ DOMAIN rules :
            MatchesDefault(p) =>
                /\ Cardinality(RecordsFor(p)) = 1
                /\ \A i \in RecordsFor(p) :
                       errors[i] = [Parameter |-> p, Value |-> queries[p],
                                    Message |-> <<"unexpected parameter">>]

\* C3 witness: a returned call that observed a well-named undeclared
\* parameter with a value the number validator would reject.
C3_Witness ==
    /\ Returned
    /\ \E p \in DOMAIN queries \ DOMAIN rules :
           /\ MatchesDefault(p)
           /\ ~NumberValidator(queries[p])
           /\ RecordsFor(p) # {}

\* C4: the result holds exactly one record for each observed parameter that
\* fails a check and none for any other name: as many records as failing
\* observed parameters, and nothing for a parameter that is only declared.
C4_OneRecordPerFailure ==
    Returned =>
        /\ Len(errors) = Cardinality({p \in DOMAIN queries : FailsCheck(p)})
        /\ \A p \in DOMAIN queries :
               Cardinality(RecordsFor(p)) = IF FailsCheck(p) THEN 1 ELSE 0
        /\ \A i \in 1..Len(errors) : errors[i].Parameter \in DOMAIN queries

\* C4 witness: a returned call with two failing observed parameters, two
\* records, and a declared parameter that was not observed.
C4_Witness ==
    /\ Returned
    /\ Len(errors) = 2
    /\ Cardinality({p \in DOMAIN queries : FailsCheck(p)}) = 2
    /\ DOMAIN rules \ DOMAIN queries # {}

\* C10: for the tables, observed parameters and rules of a call, every order
\* of visiting the observed parameters gives the same outcome and the same
\* records, up to their order.
C10_OrderIndependent ==
    op = "ValidateQuery" =>
        \A o \in Orders(DOMAIN queries) :
            LET out == RangeQueries(paramPatterns, typeValidators, queries,
                                    passedRules, o, 1, <<>>)
            IN  /\ out.panicked = panicked
                /\ SameRecords(out.errors, errors)

\* C10 witness: a returned call with two records that another order of
\* visiting returns the other way round.
C10_Witness ==
    /\ Returned
    /\ Len(errors) = 2
    /\ \E o \in Orders(DOMAIN queries) :
           RangeQueries(paramPatterns, typeValidators, queries, passedRules,
                        o, 1, <<>>).errors # errors

\* C6, as claimed: whatever AddParamPattern and AddTypeValidator calls came
\* before, ValidateQuery returns a slice and does not panic.
C6_NeverFails == op = "ValidateQuery" => ~panicked

----------------------------------------------------------------------------
(* Properties of the calls as steps *)

\* C5: AddParamPattern with a pattern that does not compile returns an error
\* that names the name argument and leaves both tables as they were; with a
\* pattern that compiles it returns no error and the compiled pattern is
\* stored under the name.
C5_AddParamPattern ==
    [][op' = "AddParamPattern" =>
          IF argValue' = UnclosedPattern
          THEN /\ err' # NoError
               /\ \E i \in 1..Len(err') : err'[i] = argName'
               /\ paramPatterns' = paramPatterns
               /\ typeValidators' = typeValidators
          ELSE /\ err' = NoError
               /\ argName' \in DOMAIN paramPatterns'
               /\ paramPatterns'[argName'] = Compile(argValue').regex]_vars

\* C5 witness: a failed AddParamPattern under a name that has an entry.
C5_Witness ==
    /\ op = "AddParamPattern"
    /\ argValue = UnclosedPattern
    /\ err # NoError
    /\ argName = "foo"
    /\ "foo" \in DOMAIN paramPatterns

\* C7: a ValidateQuery step leaves the name-pattern table, the type-validator
\* table and the rules mapping it was passed as they were.
C7_NoSideEffects ==
    [][op' = "ValidateQuery" =>
          /\ paramPatterns' = paramPatterns
          /\ typeValidators' = typeValidators
          /\ rules' = passedRules']_vars

\* C7 witness: a ValidateQuery call that produced records for parameters that
\* rules declares, on a validator that was extended.
C7_Witness ==
    /\ Returned
    /\ errors # <<>>
    /\ DOMAIN queries \cap DOMAIN rules # {}
    /\ "string" \in DOMAIN typeValidators

\* C8: an AddTypeValidator step puts the predicate under the name, replacing
\* what was there; a type check for that tag then answers as the predicate
\* does; the other entries and the name-pattern table stay as they were.
C8_AddTypeValidator ==
    [][op' = "AddTypeValidator" =>
          /\ DOMAIN typeValidators' = DOMAIN typeValidators \cup {argName'}
          /\ typeValidators'[argName'] = argValue'
          /\ \A t \in DOMAIN typeValidators \ {argName'} :
                 typeValidators'[t] = typeValidators[t]
          /\ paramPatterns' = paramPatterns
          /\ validateParamValuePanics(typeValidators', argName')
                 <=> CallPanics(argValue')
          /\ ~CallPanics(argValue') =>
                 \A v \in QueryValues :
                     validateParamValue(typeValidators', v, argName')
                         <=> Call(argValue', v)]_vars

\* C8 witness: the built-in number validator replaced by a caller's predicate.
C8_Witness ==
    /\ op = "AddTypeValidator"
    /\ argName = "number"
    /\ argValue = NonEmptyFunc
    /\ typeValidators["number"] = NonEmptyFunc

----------------------------------------------------------------------------
(* The number validator *)

\* v is an optional "-", then one or more digits, then optionally a "." and
\* one or more digits, and nothing else.
IsSignedDecimal(v) ==
    LET signed == Len(v) > 0 /\ v[1] = "-"
        first == IF signed THEN 2 ELSE 1
    IN  \E k \in first..Len(v) :
            /\ \A i \in first..k : v[i] \in Digit
            /\ \/ k = Len(v)
               \/ /\ k + 2 <= Len(v)
                  /\ v[k + 1] = "."
                  /\ \A i \in (k + 2)..Len(v) : v[i] \in Digit

\* C9: on a fresh validator the number validator accepts a value exactly when
\* it is an optionally signed run of digits with an optional fraction.
C9_NumberValidator ==
    op = "validateParamValue" => (accepted <=> IsSignedDecimal(value))

\* C9 witness: "-3.3" was checked and accepted.
C9_Witness ==
    /\ op = "validateParamValue"
    /\ value = <<"-", "3", ".", "3">>
    /\ accepted

====
